---- MODULE Spec2Model ----
(***************************************************************************)
(* A model of the `placer` crate (src/src/lib.rs, src/src/error.rs,        *)
(* src/src/main.rs): quadratic placement of floating cells.                *)
(*                                                                         *)
(*   Config::new          argument handling                                *)
(*   parse                reading a Problem from the tokens of a file      *)
(*   solve_placement      building the matrix a and the vectors xb, yb,    *)
(*                        one edge per step, then Matrix::solve per axis   *)
(*   Matrix::solve        the relaxation loop, one sweep per step          *)
(*   calculate_manhattan  the wirelength returned by run                   *)
(*                                                                         *)
(* Indices are the source's (0-based); vectors are sequences, so the       *)
(* element with index i is the (i+1)-th.  f64 arithmetic is IEEE 754       *)
(* binary64 with its rounding; i32 values stay far from the ends of their  *)
(* range.                                                                  *)
(***************************************************************************)
EXTENDS Integers, Sequences, FiniteSets, TLC

VARIABLES
    args,        \* the argument list handed to Config::new
    config,      \* the result of Config::new
    file,        \* the input file: its lines, each a sequence of characters
    parsing,     \* parse: its locals
    prob,        \* the Problem parse returned
    pc,          \* where the run stands
    outcome,     \* "none" while running, then "Ok", "Err" or "panic"
    a,           \* solve_placement: the Matrix a (Matrix::solve: self)
    xb,          \* solve_placement: the x right-hand side
    yb,          \* solve_placement: the y right-hand side
    k,           \* solve_placement: the number of edges processed
    b,           \* Matrix::solve: the right-hand side
    solve_diff,  \* Matrix::solve: the tolerance
    solution,    \* Matrix::solve: the solution vector after the last sweep
    iter_diff,   \* Matrix::solve: iter_diff of the last sweep
    sweeps,      \* Matrix::solve: the number of sweeps done, counted up to MaxSweeps
    x_results,   \* the rounded solution of the x axis
    y_results,   \* the rounded solution of the y axis
    floating,    \* the solved coordinates of the floating cells
    manhattan    \* the wirelength

vars == <<args, config, file, parsing, prob, pc, outcome, a, xb, yb, k, b, solve_diff,
          solution, iter_diff, sweeps, x_results, y_results, floating, manhattan>>

(***************************************************************************)
(* Bounds of the model.                                                    *)
(***************************************************************************)
MaxStatic == 2
MaxFloating == 2
MaxEdges == 2
MaxSweeps == 12
MaxArgs == 3

(***************************************************************************)
(* Natural numbers of any size, for the 53-bit significands of f64: a      *)
(* little-endian sequence of limbs below Base, without a high zero limb    *)
(* (zero is the empty sequence).                                           *)
(***************************************************************************)
LimbBits == 15

Base == 2^LimbBits

BHead(x) == IF x = <<>> THEN 0 ELSE Head(x)

BTail(x) == IF x = <<>> THEN <<>> ELSE Tail(x)

BCons(d, x) == IF d = 0 /\ x = <<>> THEN <<>> ELSE <<d>> \o x

RECURSIVE BNorm(_)
BNorm(x) ==
    IF x = <<>> THEN <<>>
    ELSE IF x[Len(x)] = 0 THEN BNorm(SubSeq(x, 1, Len(x) - 1))
    ELSE x

RECURSIVE BFromInt(_)
BFromInt(n) == IF n = 0 THEN <<>> ELSE <<n % Base>> \o BFromInt(n \div Base)

RECURSIVE BToInt(_)
BToInt(x) == IF x = <<>> THEN 0 ELSE Head(x) + Base * BToInt(Tail(x))

RECURSIVE BAddC(_, _, _)
BAddC(x, y, c) ==
    IF y = <<>> /\ c = 0 THEN x
    ELSE IF x = <<>> /\ c = 0 THEN y
    ELSE LET s == BHead(x) + BHead(y) + c
         IN  <<s % Base>> \o BAddC(BTail(x), BTail(y), s \div Base)

BAdd(x, y) == BAddC(x, y, 0)

\* x - y - c, for x >= y + c
RECURSIVE BSubC(_, _, _)
BSubC(x, y, c) ==
    IF y = <<>> /\ c = 0 THEN x
    ELSE LET d == BHead(x) - BHead(y) - c
         IN  BCons(IF d < 0 THEN d + Base ELSE d,
                   BSubC(BTail(x), BTail(y), IF d < 0 THEN 1 ELSE 0))

BSub(x, y) == BSubC(x, y, 0)

RECURSIVE BCmpFrom(_, _, _)
BCmpFrom(x, y, i) ==
    IF i = 0 THEN 0
    ELSE IF x[i] < y[i] THEN -1
    ELSE IF x[i] > y[i] THEN 1
    ELSE BCmpFrom(x, y, i - 1)

\* -1, 0 or 1 as x is below, equal to or above y
BCmp(x, y) ==
    IF Len(x) < Len(y) THEN -1
    ELSE IF Len(x) > Len(y) THEN 1
    ELSE BCmpFrom(x, y, Len(x))

RECURSIVE BMulSmallC(_, _, _)
BMulSmallC(x, c, carry) ==
    IF x = <<>> THEN (IF carry = 0 THEN <<>> ELSE <<carry>>)
    ELSE LET p == Head(x) * c + carry
         IN  <<p % Base>> \o BMulSmallC(Tail(x), c, p \div Base)

\* x * c for a c of at most Base
BMulSmall(x, c) == IF c = 0 THEN <<>> ELSE IF c = 1 THEN x ELSE BMulSmallC(x, c, 0)

RECURSIVE BMul(_, _)
BMul(x, y) ==
    IF x = <<>> \/ y = <<>> THEN <<>>
    ELSE BAdd(BMulSmall(x, Head(y)), BCons(0, BMul(x, Tail(y))))

\* x * 2^s
BShl(x, s) ==
    IF x = <<>> THEN <<>>
    ELSE [i \in 1..(s \div LimbBits) |-> 0] \o BMulSmall(x, 2^(s % LimbBits))

\* x[1..i] with r above it, divided by a c of at most Base: the quotient's i limbs
\* and the remainder
RECURSIVE BDivSmallFrom(_, _, _, _)
BDivSmallFrom(x, c, i, r) ==
    IF i = 0 THEN [q |-> <<>>, r |-> r]
    ELSE LET cur == r * Base + x[i]
             rest == BDivSmallFrom(x, c, i - 1, cur % c)
         IN  [q |-> Append(rest.q, cur \div c), r |-> rest.r]

\* floor(x / 2^s)
BShr(x, s) ==
    IF s \div LimbBits >= Len(x) THEN <<>>
    ELSE LET kept == SubSeq(x, s \div LimbBits + 1, Len(x))
         IN  IF s % LimbBits = 0 THEN kept
             ELSE BNorm(BDivSmallFrom(kept, 2^(s % LimbBits), Len(kept), 0).q)

RECURSIVE IntBitLen(_)
IntBitLen(n) == IF n = 0 THEN 0 ELSE 1 + IntBitLen(n \div 2)

BBitLen(x) == IF x = <<>> THEN 0 ELSE (Len(x) - 1) * LimbBits + IntBitLen(x[Len(x)])

\* bit i of x (bit 0 is the lowest)
BBit(x, i) ==
    IF i \div LimbBits >= Len(x) THEN 0
    ELSE (x[i \div LimbBits + 1] \div 2^(i % LimbBits)) % 2

RECURSIVE IntTrailingZeros(_)
IntTrailingZeros(n) == IF n % 2 = 1 THEN 0 ELSE 1 + IntTrailingZeros(n \div 2)

\* the number of zero bits below the lowest set bit of x # 0
RECURSIVE BTrailingZeros(_)
BTrailingZeros(x) ==
    IF Head(x) = 0 THEN LimbBits + BTrailingZeros(Tail(x))
    ELSE IntTrailingZeros(Head(x))

BIsOdd(x) == x # <<>> /\ Head(x) % 2 = 1

\* one step of long division: bit i of n is brought down to the remainder st.r
BLongDivStep(n, d, i, st) ==
    LET r2 == BAdd(BShl(st.r, 1), IF BBit(n, i) = 1 THEN <<1>> ELSE <<>>)
        ge == BCmp(r2, d) >= 0
    IN  [q |-> BAdd(BShl(st.q, 1), IF ge THEN <<1>> ELSE <<>>),
         r |-> IF ge THEN BSub(r2, d) ELSE r2]

\* long division over the bits hi - 1 down to lo of n, from the quotient and the
\* remainder st of the bits above them; the upper half of the bits first
RECURSIVE BLongDiv(_, _, _, _, _)
BLongDiv(n, d, hi, lo, st) ==
    IF hi <= lo THEN st
    ELSE IF hi = lo + 1 THEN BLongDivStep(n, d, lo, st)
    ELSE LET mid == (hi + lo) \div 2
             upper == BLongDiv(n, d, hi, mid, st)
         IN  IF Len(upper.q) + Len(upper.r) >= 0 THEN BLongDiv(n, d, mid, lo, upper)
             ELSE upper

\* floor(n / d) and the remainder, for d # 0
BDivMod(n, d) ==
    IF Len(d) = 1
    THEN LET short == BDivSmallFrom(n, d[1], Len(n), 0)
         IN  [q |-> BNorm(short.q), r |-> BFromInt(short.r)]
    ELSE BLongDiv(n, d, BBitLen(n), 0, [q |-> <<>>, r |-> <<>>])

(***************************************************************************)
(* f64 arithmetic (IEEE 754 binary64, round to nearest, ties to even).  A  *)
(* finite value is s * m * 2^e with s the sign, m an odd natural below     *)
(* 2^53 and e an integer; zero has m = 0.  The sign of zero is not kept    *)
(* (no operation of the program tells -0.0 from 0.0) and e is not bounded  *)
(* (the values of the runs are far from overflow and from the subnormals). *)
(***************************************************************************)
MantissaBits == 53

Zero == [c |-> "finite", s |-> 1, m |-> <<>>, e |-> 0]

NaN == [c |-> "nan", s |-> 1, m |-> <<>>, e |-> 0]

Inf(s) == [c |-> "inf", s |-> s, m |-> <<>>, e |-> 0]

IsNaN(v) == v.c = "nan"

IsInf(v) == v.c = "inf"

IsFinite(v) == v.c = "finite"

IsZero(v) == v.c = "finite" /\ v.m = <<>>

Abs(i) == IF i < 0 THEN -i ELSE i

Sign(i) == IF i > 0 THEN 1 ELSE IF i < 0 THEN -1 ELSE 0

\* s * m * 2^e, which is a value of f64 when m has at most 53 bits
Canon(s, m, e) ==
    IF m = <<>> THEN Zero
    ELSE LET tz == BTrailingZeros(m)
         IN  [c |-> "finite", s |-> s, m |-> BShr(m, tz), e |-> e + tz]

\* the f64 nearest to s * (m + t) * 2^e, where 0 < t < 1 if sticky and t = 0 if
\* not; a sticky m has more than 54 bits
RoundF64(s, m, e, sticky) ==
    IF BBitLen(m) <= MantissaBits THEN Canon(s, m, e)
    ELSE LET sh == BBitLen(m) - MantissaBits
             q == BShr(m, sh)
             rem == BSub(m, BShl(q, sh))
             cmp == BCmp(rem, BShl(<<1>>, sh - 1))
             up == cmp > 0 \/ (cmp = 0 /\ (sticky \/ BIsOdd(q)))
         IN  Canon(s, IF up THEN BAdd(q, <<1>>) ELSE q, e + sh)

\* `i as f64` for an i32
FromInt(i) == Canon(Sign(i), BFromInt(Abs(i)), 0)

\* v * 2^j, exactly
Scaled(v, j) == IF v.m = <<>> THEN v ELSE [v EXCEPT !.e = @ + j]

FNeg(v) == IF v.m = <<>> /\ v.c = "finite" THEN v ELSE [v EXCEPT !.s = -@]

FAbs(v) == [v EXCEPT !.s = 1]

FAdd(v, w) ==
    IF IsNaN(v) \/ IsNaN(w) THEN NaN
    ELSE IF IsInf(v) /\ IsInf(w) THEN (IF v.s = w.s THEN v ELSE NaN)
    ELSE IF IsInf(v) THEN v
    ELSE IF IsInf(w) THEN w
    ELSE IF v.m = <<>> THEN w
    ELSE IF w.m = <<>> THEN v
    ELSE LET low == IF v.e < w.e THEN v.e ELSE w.e
             mv == BShl(v.m, v.e - low)
             mw == BShl(w.m, w.e - low)
             cmp == BCmp(mv, mw)
         IN  IF v.s = w.s THEN RoundF64(v.s, BAdd(mv, mw), low, FALSE)
             ELSE IF cmp = 0 THEN Zero
             ELSE IF cmp > 0 THEN RoundF64(v.s, BSub(mv, mw), low, FALSE)
             ELSE RoundF64(w.s, BSub(mw, mv), low, FALSE)

FSub(v, w) == FAdd(v, FNeg(w))

FMul(v, w) ==
    IF IsNaN(v) \/ IsNaN(w) THEN NaN
    ELSE IF IsInf(v) \/ IsInf(w)
         THEN (IF IsZero(v) \/ IsZero(w) THEN NaN ELSE Inf(v.s * w.s))
    ELSE RoundF64(v.s * w.s, BMul(v.m, w.m), v.e + w.e, FALSE)

FDiv(v, w) ==
    IF IsNaN(v) \/ IsNaN(w) THEN NaN
    ELSE IF IsInf(v) THEN (IF IsInf(w) THEN NaN ELSE Inf(v.s * w.s))
    ELSE IF IsInf(w) THEN Zero
    ELSE IF w.m = <<>> THEN (IF v.m = <<>> THEN NaN ELSE Inf(v.s))
    ELSE IF v.m = <<>> THEN Zero
    ELSE LET want == MantissaBits + 2 + BBitLen(w.m) - BBitLen(v.m)
             sh == IF want > 0 THEN want ELSE 0
             dm == BDivMod(BShl(v.m, sh), w.m)
         IN  RoundF64(v.s * w.s, dm.q, v.e - w.e - sh, dm.r # <<>>)

\* v < w; false when either is NaN
FLt(v, w) ==
    /\ ~IsNaN(v)
    /\ ~IsNaN(w)
    /\ v # w
    /\ LET d == FSub(v, w) IN d.s < 0 /\ ~IsZero(d)

FGt(v, w) == FLt(w, v)

I32Max == 2147483647

I32Min == -I32Max - 1

\* value.round() as i32: to the nearest integer, halves away from zero, then the
\* saturating cast, which takes NaN to 0
round_as_i32(v) ==
    IF IsNaN(v) THEN 0
    ELSE IF IsInf(v) THEN (IF v.s > 0 THEN I32Max ELSE I32Min)
    ELSE LET magnitude ==
                 IF v.e >= 0 THEN BShl(v.m, v.e)
                 ELSE BAdd(BShr(v.m, -v.e), IF BBit(v.m, -v.e - 1) = 1 THEN <<1>> ELSE <<>>)
         IN  IF BBitLen(magnitude) >= 32 THEN (IF v.s > 0 THEN I32Max ELSE I32Min)
             ELSE v.s * BToInt(magnitude)

(***************************************************************************)
(* The data model: Coordinate, Edge, Problem, Matrix.                      *)
(***************************************************************************)
Coordinate(x, y) == [x |-> x, y |-> y]

Edge(node_a, node_b) == [node_a |-> node_a, node_b |-> node_b]

Problem(tol, nf, statics, es) ==
    [solve_diff |-> tol, floating_cells |-> nf, static_cells |-> statics, edges |-> es]

Zeros(n) == [i \in 1..n |-> 0]

Matrix_new(size) == [size |-> size, values |-> [r \in 1..size |-> Zeros(size)]]

\* a Vec index that does not panic
InRange(i, len) == 0 <= i /\ i < len

add_node_view_by_one(m, node) == [m EXCEPT !.values[node + 1][node + 1] = @ + 1]

add_node_view(m, node) == [m EXCEPT !.values[node + 1][node + 1] = @ + 2]

add_edge_view_one_sided(m, node_a, node_b) ==
    LET m1 == add_node_view(m, node_a)
        m2 == add_node_view(m1, node_b)
    IN  [m2 EXCEPT !.values[node_a + 1][node_b + 1] = @ - 2]

add_edge_view(m, node_a, node_b) ==
    LET m1 == add_node_view(m, node_a)
        m2 == add_node_view(m1, node_b)
        m3 == [m2 EXCEPT !.values[node_a + 1][node_b + 1] = @ - 2]
    IN  [m3 EXCEPT !.values[node_b + 1][node_a + 1] = @ - 2]

(***************************************************************************)
(* solve_placement, the body of `for edge in &prob.edges`: the matrix and  *)
(* the two vectors after the edge, or a panic on an index out of range.    *)
(***************************************************************************)
process_edge_x_only(m, vx, vy, p, edge) ==
    LET num_statics == Len(p.static_cells)
        same == [panic |-> FALSE, a |-> m, xb |-> vx, yb |-> vy]
        Tie(static_node, floating_node) ==
            IF ~InRange(floating_node, Len(vx)) THEN [same EXCEPT !.panic = TRUE]
            ELSE [panic |-> FALSE,
                  a |-> add_node_view(m, floating_node),
                  xb |-> [vx EXCEPT ![floating_node + 1] =
                             @ + p.static_cells[static_node + 1].x * 2],
                  yb |-> vy]
    IN  IF edge.node_a < num_statics /\ edge.node_b >= num_statics
        THEN Tie(edge.node_a, edge.node_b - num_statics)
        ELSE IF edge.node_a >= num_statics /\ edge.node_b < num_statics
        THEN Tie(edge.node_b, edge.node_a - num_statics)
        ELSE IF edge.node_a >= num_statics /\ edge.node_b >= num_statics
        THEN IF InRange(edge.node_a - num_statics, m.size)
                /\ InRange(edge.node_b - num_statics, m.size)
             THEN [same EXCEPT !.a = add_edge_view(m, edge.node_a - num_statics,
                                                   edge.node_b - num_statics)]
             ELSE [same EXCEPT !.panic = TRUE]
        ELSE same

process_edge(m, vx, vy, p, edge) ==
    LET num_statics == Len(p.static_cells)
        same == [panic |-> FALSE, a |-> m, xb |-> vx, yb |-> vy]
        Tie(static_node, floating_node) ==
            IF ~InRange(floating_node, Len(vx)) THEN [same EXCEPT !.panic = TRUE]
            ELSE [panic |-> FALSE,
                  a |-> add_node_view(m, floating_node),
                  xb |-> [vx EXCEPT ![floating_node + 1] =
                             @ + p.static_cells[static_node + 1].x * 2],
                  yb |-> [vy EXCEPT ![floating_node + 1] =
                             @ + p.static_cells[static_node + 1].y * 2]]
    IN  IF edge.node_a < num_statics /\ edge.node_b >= num_statics
        THEN Tie(edge.node_a, edge.node_b - num_statics)
        ELSE IF edge.node_a >= num_statics /\ edge.node_b < num_statics
        THEN Tie(edge.node_b, edge.node_a - num_statics)
        ELSE IF edge.node_a >= num_statics /\ edge.node_b >= num_statics
        THEN IF InRange(edge.node_a - num_statics, m.size)
                /\ InRange(edge.node_b - num_statics, m.size)
             THEN [same EXCEPT !.a = add_edge_view(m, edge.node_a - num_statics,
                                                   edge.node_b - num_statics)]
             ELSE [same EXCEPT !.panic = TRUE]
        ELSE same

(***************************************************************************)
(* The inputs of the bounded runs.                                         *)
(***************************************************************************)
StaticPoolA == <<Coordinate(0, 0), Coordinate(4, 0), Coordinate(1, 3), Coordinate(-2, 5)>>

StaticPoolB == <<Coordinate(4, 0), Coordinate(-3, -1), Coordinate(0, 0), Coordinate(2, 2)>>

StaticLayouts ==
    {SubSeq(pool, 1, n) : pool \in {StaticPoolA, StaticPoolB},
                          n \in {i \in 0..MaxStatic : i <= Len(StaticPoolA)}}

EdgesOver(indices) == {Edge(i, j) : i \in indices, j \in indices}

\* p is a problem over the given static cells, tolerances and floating-cell counts whose edges
\* name the cells 0 .. numStatic + numFloating - 1 + extra
IsProblemOver(p, layouts, tols, counts, extra) ==
    \E statics \in layouts, nf \in counts, m \in 0..MaxEdges, tol \in tols :
        \E es \in [1..m -> EdgesOver(0..(Len(statics) + nf - 1 + extra))] :
            p = Problem(tol, nf, statics, es)

Half == Scaled(FromInt(1), -1)

CoarseTolerances == {Half, FromInt(1)}

(***************************************************************************)
(* Matrix::solve, one sweep of the loop: every row's new value is computed *)
(* from `solution`, the vector of the sweep before, and pushed onto        *)
(* new_solution_row, which replaces `solution` after the last row.         *)
(***************************************************************************)
RECURSIVE row_residual(_, _, _, _, _)
row_residual(m, sol, row, column, acc) ==
    IF column >= m.size THEN acc
    ELSE IF row = column THEN row_residual(m, sol, row, column + 1, acc)
    ELSE row_residual(m, sol, row, column + 1,
                      FSub(acc, FMul(FromInt(m.values[row + 1][column + 1]),
                                     sol[column + 1])))

new_solution(m, rhs, sol, row) ==
    FDiv(row_residual(m, sol, row, 0, FromInt(rhs[row + 1])),
         FromInt(m.values[row + 1][row + 1]))

\* the sweep as an in-place relaxation: row r reads the new values of the rows before it
RECURSIVE in_place_rows(_, _, _, _)
in_place_rows(m, rhs, sol, row) ==
    IF row >= m.size THEN sol
    ELSE in_place_rows(m, rhs, [sol EXCEPT ![row + 1] = new_solution(m, rhs, sol, row)],
                       row + 1)

new_solution_row_in_place(m, rhs, sol) == in_place_rows(m, rhs, sol, 0)

new_solution_row_undivided(m, rhs, sol) ==
    [r \in 1..m.size |-> row_residual(m, sol, r - 1, 0, FromInt(rhs[r]))]

new_solution_row(m, rhs, sol) ==
    [r \in 1..m.size |-> new_solution(m, rhs, sol, r - 1)]

RECURSIVE max_diff(_, _, _, _)
max_diff(sol, new, row, acc) ==
    IF row >= Len(new) THEN acc
    ELSE LET diff == FAbs(FSub(sol[row + 1], new[row + 1]))
         IN  max_diff(sol, new, row + 1, IF FGt(diff, acc) THEN diff ELSE acc)

sweep_iter_diff(sol, new) == max_diff(sol, new, 0, FromInt(0))

rounded_solution(sol) == [i \in 1..Len(sol) |-> round_as_i32(sol[i])]

(***************************************************************************)
(* calculate_manhattan                                                     *)
(***************************************************************************)
RECURSIVE manhattan_from(_, _, _, _, _)
manhattan_from(edges, static_cells, floating_cells, i, length) ==
    IF i > Len(edges) THEN length
    ELSE LET edge == edges[i]
             coordinate_a ==
                 IF edge.node_a < Len(static_cells)
                 THEN static_cells[edge.node_a + 1]
                 ELSE floating_cells[edge.node_a - Len(static_cells) + 1]
             coordinate_b ==
                 IF edge.node_b < Len(static_cells)
                 THEN static_cells[edge.node_b + 1]
                 ELSE floating_cells[edge.node_b - Len(static_cells) + 1]
         IN  manhattan_from(edges, static_cells, floating_cells, i + 1,
                            length + Abs(coordinate_a.x - coordinate_b.x)
                                   + Abs(coordinate_a.y - coordinate_b.y))

calculate_manhattan_signed(edges, static_cells, floating_cells) ==
    LET RECURSIVE signed_from(_, _)
        signed_from(i, length) ==
            IF i > Len(edges) THEN length
            ELSE LET edge == edges[i]
                     all == static_cells \o floating_cells
                     ca == all[edge.node_a + 1]
                     cb == all[edge.node_b + 1]
                 IN  signed_from(i + 1, length + (ca.x - cb.x) + (ca.y - cb.y))
    IN  signed_from(1, 0)

calculate_manhattan(edges, static_cells, floating_cells) ==
    manhattan_from(edges, static_cells, floating_cells, 1, 0)

(***************************************************************************)
(* Config::new and the Display of PlacerError.                             *)
(***************************************************************************)
PlacerError_fmt(why) == "Placer Error: " \o why

Config_new_first_argument(arguments) ==
    IF 2 # Len(arguments)
    THEN [ok |-> FALSE, filename |-> "", why |-> "Invalid number of arguments, expected 2."]
    ELSE [ok |-> TRUE, filename |-> arguments[1], why |-> ""]

\* args[1] of the source is the second argument: arguments[2] here
Config_new(arguments) ==
    IF 2 # Len(arguments)
    THEN [ok |-> FALSE, filename |-> "", why |-> "Invalid number of arguments, expected 2."]
    ELSE [ok |-> TRUE, filename |-> arguments[2], why |-> ""]

(***************************************************************************)
(* The input file and its reader.  A file is a sequence of lines, each a   *)
(* sequence of characters, the last one ended by a newline or not.  The    *)
(* characters of the runs are the digits, "-", "." , " " and "x".          *)
(***************************************************************************)
Digits == <<"0", "1", "2", "3", "4", "5", "6", "7", "8", "9">>

IsDigit(c) == \E d \in 1..Len(Digits) : Digits[d] = c

DigitValue(c) == (CHOOSE d \in 1..Len(Digits) : Digits[d] = c) - 1

AllDigits(token) == \A i \in 1..Len(token) : IsDigit(token[i])

\* str::parse::<i32>: an optional sign, one digit or more, no overflow
RECURSIVE i32_from_digits(_, _, _, _)
i32_from_digits(digits, i, acc, negative) ==
    IF i > Len(digits) THEN [ok |-> TRUE, value |-> acc]
    ELSE LET d == DigitValue(digits[i])
         IN  IF negative
             THEN IF acc > -(I32Max \div 10) \/ (acc = -(I32Max \div 10) /\ d <= (I32Max % 10) + 1)
                  THEN i32_from_digits(digits, i + 1, acc * 10 - d, negative)
                  ELSE [ok |-> FALSE, value |-> 0]
             ELSE IF acc < I32Max \div 10 \/ (acc = I32Max \div 10 /\ d <= (I32Max % 10))
                  THEN i32_from_digits(digits, i + 1, acc * 10 + d, negative)
                  ELSE [ok |-> FALSE, value |-> 0]

parse_i32(token) ==
    LET signed == token # <<>> /\ token[1] \in {"-", "+"}
        digits == IF signed THEN Tail(token) ELSE token
    IN  IF digits = <<>> \/ ~AllDigits(digits) THEN [ok |-> FALSE, value |-> 0]
        ELSE i32_from_digits(digits, 1, 0, token[1] = "-")

\* str::parse::<usize>: an optional "+", one digit or more ("-" is an invalid digit);
\* the tokens of the runs have few digits, far from the overflow of a usize
RECURSIVE usize_from_digits(_, _, _)
usize_from_digits(digits, i, acc) ==
    IF i > Len(digits) THEN acc
    ELSE usize_from_digits(digits, i + 1, acc * 10 + DigitValue(digits[i]))

parse_usize(token) ==
    LET digits == IF token # <<>> /\ token[1] = "+" THEN Tail(token) ELSE token
    IN  IF digits = <<>> \/ ~AllDigits(digits) THEN [ok |-> FALSE, value |-> 0]
        ELSE [ok |-> TRUE, value |-> usize_from_digits(digits, 1, 0)]

\* the natural number of a digit string, as limbs
RECURSIVE limbs_from_digits(_, _, _)
limbs_from_digits(digits, i, acc) ==
    IF i > Len(digits) THEN acc
    ELSE limbs_from_digits(digits, i + 1,
                           BAdd(BMulSmall(acc, 10), BFromInt(DigitValue(digits[i]))))

RECURSIVE PowerOfTen(_)
PowerOfTen(n) == IF n = 0 THEN <<1>> ELSE BMulSmall(PowerOfTen(n - 1), 10)

\* str::parse::<f64> on the decimal strings without exponent: an optional sign, digits
\* with at most one "." among them, one digit at least.  The result is the f64
\* nearest to the decimal number: the digits and the power of ten are exact f64
\* values (the strings of the runs have at most 15 significant digits and 22
\* decimals), so their correctly rounded quotient is that f64.
parse_f64(text) ==
    LET signed == text # <<>> /\ text[1] \in {"-", "+"}
        body == IF signed THEN Tail(text) ELSE text
        dots == {i \in 1..Len(body) : body[i] = "."}
        whole == IF dots = {} THEN body
                 ELSE SubSeq(body, 1, (CHOOSE i \in dots : TRUE) - 1)
        fraction == IF dots = {} THEN <<>>
                    ELSE SubSeq(body, (CHOOSE i \in dots : TRUE) + 1, Len(body))
        sign == IF signed /\ text[1] = "-" THEN -1 ELSE 1
    IN  IF Cardinality(dots) > 1 \/ ~AllDigits(whole) \/ ~AllDigits(fraction)
           \/ whole \o fraction = <<>>
        THEN [ok |-> FALSE, value |-> Zero]
        ELSE [ok |-> TRUE,
              value |-> FDiv(RoundF64(sign, limbs_from_digits(whole \o fraction, 1, <<>>),
                                      0, FALSE),
                             RoundF64(1, PowerOfTen(Len(fraction)), 0, FALSE))]

NoFile == [exists |-> FALSE, lines |-> <<>>, newline_at_end |-> TRUE]

TextFile(lines, newline_at_end) ==
    [exists |-> TRUE, lines |-> lines, newline_at_end |-> newline_at_end]

\* BufReader::new(&file): the next line to read is the first
BufReader_new(f) == [lines |-> f.lines, newline_at_end |-> f.newline_at_end, pos |-> 1]

\* read_line appends the line with its newline, if it has one; line.pop() drops
\* the last character, whatever it is
read_expected_line(reader) ==
    LET text == reader.lines[reader.pos]
        raw == IF reader.pos < Len(reader.lines) \/ reader.newline_at_end
               THEN Append(text, "\n") ELSE text
    IN  IF reader.pos > Len(reader.lines) \/ raw = <<>>
        THEN [err |-> "File contains no more lines", line |-> <<>>, reader |-> reader]
        ELSE [err |-> "", line |-> SubSeq(raw, 1, Len(raw) - 1),
              reader |-> [reader EXCEPT !.pos = @ + 1]]

\* str::split_whitespace: the maximal runs of characters other than " "
RECURSIVE split_from(_, _, _, _)
split_from(line, i, word, words) ==
    IF i > Len(line) THEN (IF word = <<>> THEN words ELSE Append(words, word))
    ELSE IF line[i] = " "
    THEN split_from(line, i + 1, <<>>, IF word = <<>> THEN words ELSE Append(words, word))
    ELSE split_from(line, i + 1, Append(word, line[i]), words)

split_whitespace(line) == split_from(line, 1, <<>>, <<>>)

\* the values of the tokens, each parsed as a usize if `index` and as an i32 if
\* not, or the error of the first token that does not parse
RECURSIVE parse_values(_, _, _, _)
parse_values(tokens, i, values, index) ==
    IF i > Len(tokens) THEN [err |-> "", values |-> values]
    ELSE LET value == IF index THEN parse_usize(tokens[i]) ELSE parse_i32(tokens[i])
         IN  IF value.ok THEN parse_values(tokens, i + 1, Append(values, value.value), index)
             ELSE [err |-> "invalid digit found in string", values |-> <<>>]

read_int_array(reader) ==
    LET line == read_expected_line(reader)
        parsed == parse_values(split_whitespace(line.line), 1, <<>>, FALSE)
    IN  IF line.err # "" THEN [err |-> line.err, values |-> <<>>, reader |-> reader]
        ELSE [err |-> parsed.err, values |-> parsed.values, reader |-> line.reader]

read_index_array(reader) ==
    LET line == read_expected_line(reader)
        parsed == parse_values(split_whitespace(line.line), 1, <<>>, TRUE)
    IN  IF line.err # "" THEN [err |-> line.err, values |-> <<>>, reader |-> reader]
        ELSE [err |-> parsed.err, values |-> parsed.values, reader |-> line.reader]

\* `as usize` of an i32 that is not negative (the counts of the runs are not)
as_usize(v) == v

\* the locals of parse: reader, solve_diff, chip_info, static_cells, edges
ParseLocals(reader, tolerance, chip_info, static_cells, edges) ==
    [reader |-> reader, solve_diff |-> tolerance, chip_info |-> chip_info,
     static_cells |-> static_cells, edges |-> edges]

NotParsing == ParseLocals(BufReader_new(NoFile), Zero, <<>>, <<>>, <<>>)

(***************************************************************************)
(* The steps of run.                                                       *)
(***************************************************************************)
NoConfig == [ok |-> FALSE, filename |-> "", why |-> ""]

NoProblem == Problem(FromInt(0), 0, <<>>, <<>>)

\* main: Config::new(&args), and the exit on its error
ConfigNew ==
    /\ pc = "config"
    /\ config' = Config_new(args)
    /\ IF Config_new(args).ok
       THEN pc' = "parse" /\ UNCHANGED outcome
       ELSE pc' = "done" /\ outcome' = "Err"
    /\ UNCHANGED <<args, file, parsing, prob, a, xb, yb, k, b, solve_diff, solution,
                   iter_diff, sweeps, x_results, y_results, floating, manhattan>>

\* the variables that no step of parse changes
ParseFrame ==
    UNCHANGED <<args, config, file, a, xb, yb, k, b, solve_diff, solution, iter_diff,
                sweeps, x_results, y_results, floating, manhattan>>

\* run returns the error of parse (`?`), or the thread panics
ParseFails(panic) ==
    /\ pc' = "done"
    /\ outcome' = IF panic THEN "panic" ELSE "Err"
    /\ UNCHANGED <<parsing, prob>>

\* parse, lines 170-177: the file named by config.filename is opened, the
\* tolerance and chip_info are read, chip_info[0] is taken
ParseHeader ==
    /\ pc = "parse"
    /\ LET first == read_expected_line(BufReader_new(file))
           tolerance == parse_f64(first.line)
           chip_info == read_int_array(first.reader)
       IN  IF ~file.exists \/ first.err # "" \/ ~tolerance.ok \/ chip_info.err # ""
           THEN ParseFails(FALSE)
           ELSE IF Len(chip_info.values) < 1 THEN ParseFails(TRUE)
           ELSE /\ parsing' = ParseLocals(chip_info.reader, tolerance.value,
                                          chip_info.values, <<>>, <<>>)
                /\ pc' = "parse_static"
                /\ UNCHANGED <<prob, outcome>>
    /\ ParseFrame

\* parse_static_cells: one iteration of its loop
ParseStaticCell ==
    /\ pc = "parse_static"
    /\ Len(parsing.static_cells) < as_usize(parsing.chip_info[1])
    /\ LET static_cell == read_int_array(parsing.reader)
       IN  IF static_cell.err # "" \/ 2 # Len(static_cell.values)
           THEN ParseFails(FALSE)
           ELSE /\ parsing' = [parsing EXCEPT
                                  !.reader = static_cell.reader,
                                  !.static_cells = Append(@, Coordinate(static_cell.values[1],
                                                                       static_cell.values[2]))]
                /\ UNCHANGED <<pc, prob, outcome>>
    /\ ParseFrame

\* parse_static_cells returns; parse takes chip_info[2], the bound of the edge loop
ParseStaticCellsEnd ==
    /\ pc = "parse_static"
    /\ Len(parsing.static_cells) >= as_usize(parsing.chip_info[1])
    /\ IF Len(parsing.chip_info) < 3
       THEN ParseFails(TRUE)
       ELSE pc' = "parse_edges" /\ UNCHANGED <<parsing, prob, outcome>>
    /\ ParseFrame

\* parse: one iteration of `for x in 0..chip_info[2]`
ParseEdge ==
    /\ pc = "parse_edges"
    /\ Len(parsing.edges) < parsing.chip_info[3]
    /\ LET edge == read_index_array(parsing.reader)
       IN  IF edge.err # "" \/ 2 # Len(edge.values)
           THEN ParseFails(FALSE)
           ELSE /\ parsing' = [parsing EXCEPT
                                  !.reader = edge.reader,
                                  !.edges = Append(@, Edge(edge.values[1], edge.values[2]))]
                /\ UNCHANGED <<pc, prob, outcome>>
    /\ ParseFrame

\* parse returns Ok(Problem); run calls solve_placement, which builds a, xb and yb
\* (lines 194-198)
ParseEnd ==
    /\ pc = "parse_edges"
    /\ Len(parsing.edges) >= parsing.chip_info[3]
    /\ prob' = Problem(parsing.solve_diff, as_usize(parsing.chip_info[2]),
                       parsing.static_cells, parsing.edges)
    /\ pc' = "build"
    /\ a' = Matrix_new(as_usize(parsing.chip_info[2]))
    /\ xb' = Zeros(as_usize(parsing.chip_info[2]))
    /\ yb' = Zeros(as_usize(parsing.chip_info[2]))
    /\ k' = 0
    /\ UNCHANGED <<args, config, file, parsing, outcome, b, solve_diff, solution,
                   iter_diff, sweeps, x_results, y_results, floating, manhattan>>

\* solve_placement: one iteration of the loop over prob.edges
BuildEdge ==
    /\ pc = "build"
    /\ k < Len(prob.edges)
    /\ LET r == process_edge(a, xb, yb, prob, prob.edges[k + 1])
       IN  IF r.panic
           THEN /\ pc' = "done"
                /\ outcome' = "panic"
                /\ UNCHANGED <<a, xb, yb, k>>
           ELSE /\ a' = r.a
                /\ xb' = r.xb
                /\ yb' = r.yb
                /\ k' = k + 1
                /\ UNCHANGED <<pc, outcome>>
    /\ UNCHANGED <<args, config, file, parsing, prob, b, solve_diff, solution, iter_diff,
                   sweeps, x_results, y_results, floating, manhattan>>

\* solve_placement: the loop is over; a.solve(prob.solve_diff, &xb) starts
StartSolve ==
    /\ pc = "build"
    /\ k = Len(prob.edges)
    /\ pc' = "solve_x"
    /\ b' = xb
    /\ solve_diff' = prob.solve_diff
    /\ solution' = [i \in 1..Len(xb) |-> FromInt(0)]
    /\ iter_diff' = FromInt(0)
    /\ sweeps' = 0
    /\ UNCHANGED <<args, config, file, parsing, prob, outcome, a, xb, yb, k,
                   x_results, y_results, floating, manhattan>>

\* Matrix::solve: one iteration of `loop`, its break included
Sweep ==
    /\ pc \in {"solve_x", "solve_y"}
    /\ LET new == new_solution_row(a, b, solution)
           diff == sweep_iter_diff(solution, new)
       IN  /\ solution' = new
           /\ iter_diff' = diff
           /\ sweeps' = IF sweeps < MaxSweeps THEN sweeps + 1 ELSE sweeps
           /\ pc' = IF FLt(diff, solve_diff)
                    THEN (IF pc = "solve_x" THEN "round_x" ELSE "round_y")
                    ELSE pc
    /\ UNCHANGED <<args, config, file, parsing, prob, outcome, a, xb, yb, k, b, solve_diff,
                   x_results, y_results, floating, manhattan>>

\* Matrix::solve after the loop: the rounded solution is returned; the x axis is
\* followed by a.solve(prob.solve_diff, &yb), the y axis by the coordinates
Round ==
    /\ pc \in {"round_x", "round_y"}
    /\ IF pc = "round_x"
       THEN /\ x_results' = rounded_solution(solution)
            /\ pc' = "solve_y"
            /\ b' = yb
            /\ solution' = [i \in 1..Len(yb) |-> FromInt(0)]
            /\ iter_diff' = FromInt(0)
            /\ sweeps' = 0
            /\ UNCHANGED <<y_results, floating>>
       ELSE /\ y_results' = rounded_solution(solution)
            /\ floating' = [i \in 1..Len(x_results) |->
                               Coordinate(x_results[i], rounded_solution(solution)[i])]
            /\ pc' = "evaluate"
            /\ UNCHANGED <<x_results, b, solution, iter_diff, sweeps>>
    /\ UNCHANGED <<args, config, file, parsing, prob, outcome, a, xb, yb, k, solve_diff, manhattan>>

\* run: calculate_manhattan and Ok(manhattan)
Evaluate ==
    /\ pc = "evaluate"
    /\ manhattan' = calculate_manhattan(prob.edges, prob.static_cells, floating)
    /\ pc' = "done"
    /\ outcome' = "Ok"
    /\ UNCHANGED <<args, config, file, parsing, prob, a, xb, yb, k, b, solve_diff, solution,
                   iter_diff, sweeps, x_results, y_results, floating>>

(***************************************************************************)
(* SpecBuild: the edge loop of solve_placement on every problem with valid *)
(* edge indices.                                                           *)
(***************************************************************************)
\* nothing of Config::new and parse is part of the run
NoFrontEnd ==
    /\ args = <<>>
    /\ config = NoConfig
    /\ file = NoFile
    /\ parsing = NotParsing

\* Matrix::solve has not been called and nothing has been returned
SolverIdle ==
    /\ b = <<>>
    /\ solve_diff = FromInt(0)
    /\ solution = <<>>
    /\ iter_diff = FromInt(0)
    /\ sweeps = 0
    /\ x_results = <<>>
    /\ y_results = <<>>
    /\ floating = <<>>
    /\ manhattan = 0

\* solve_placement, lines 194-198: a, xb and yb before the first edge
EnterSolvePlacement ==
    /\ pc = "build"
    /\ outcome = "none"
    /\ a = Matrix_new(prob.floating_cells)
    /\ xb = Zeros(prob.floating_cells)
    /\ yb = Zeros(prob.floating_cells)
    /\ k = 0

InitBuild ==
    /\ IsProblemOver(prob, StaticLayouts, {Half}, 0..MaxFloating, 0)
    /\ EnterSolvePlacement
    /\ NoFrontEnd
    /\ SolverIdle

NextBuild == BuildEdge

SpecBuild == InitBuild /\ [][NextBuild]_vars

(***************************************************************************)
(* Spec: main and run on the files that render a problem (tolerances 0.5,  *)
(* 0.001, 0 and -1; edge indices up to one past the last cell) and on      *)
(* files that are not of the format.                                       *)
(***************************************************************************)
RECURSIVE DecimalDigits(_)
DecimalDigits(n) ==
    IF n < 10 THEN <<Digits[n + 1]>>
    ELSE Append(DecimalDigits(n \div 10), Digits[(n % 10) + 1])

Decimal(v) == IF v < 0 THEN <<"-">> \o DecimalDigits(-v) ELSE DecimalDigits(v)

\* the numbers in decimal, one space between two of them
RECURSIVE Words(_)
Words(numbers) ==
    IF Len(numbers) = 0 THEN <<>>
    ELSE IF Len(numbers) = 1 THEN Decimal(numbers[1])
    ELSE Decimal(numbers[1]) \o <<" ">> \o Words(Tail(numbers))

ProblemLines(tolerance, statics, nf, es) ==
    <<tolerance, Words(<<Len(statics), nf, Len(es)>>)>>
    \o [i \in 1..Len(statics) |-> Words(<<statics[i].x, statics[i].y>>)]
    \o [i \in 1..Len(es) |-> Words(<<es[i].node_a, es[i].node_b>>)]

ToleranceTexts ==
    {<<"0", ".", "5">>, <<"0", ".", "0", "0", "1">>, <<"0">>, <<"-", "1">>}

MainLayouts == {SubSeq(StaticPoolA, 1, n) : n \in {i \in 0..MaxStatic : i <= Len(StaticPoolA)}}

ScenarioLines ==
    ProblemLines(<<"0", ".", "0", "0", "1">>, SubSeq(StaticPoolA, 1, 2), 1,
                 <<Edge(0, 2), Edge(2, 1)>>)

OtherFiles ==
    {NoFile,
     TextFile(<<>>, TRUE),
     TextFile(ScenarioLines, FALSE),
     TextFile(SubSeq(ScenarioLines, 1, 5), TRUE),
     TextFile(SubSeq(ScenarioLines, 1, 3), TRUE),
     TextFile(<<ScenarioLines[1], <<>>>>, TRUE),
     TextFile(<<ScenarioLines[1], <<"0", " ", "1">>>>, TRUE),
     TextFile(<<ScenarioLines[1], <<"1", " ", "1">>, <<"3", " ", "4">>>>, TRUE),
     TextFile(<<<<"x">>>> \o Tail(ScenarioLines), TRUE),
     TextFile(<<<<"0", ".", "5", " ">>>> \o Tail(ScenarioLines), TRUE),
     TextFile(<<ScenarioLines[1], ScenarioLines[2], <<"0", " ", "0", " ", "0">>>>
              \o SubSeq(ScenarioLines, 4, 6), TRUE),
     TextFile(SubSeq(ScenarioLines, 1, 4) \o <<<<"-", "1", " ", "2">>, ScenarioLines[6]>>, TRUE)}

Init ==
    /\ args \in {<<"placer">>, <<"placer", "chip.txt">>}
    /\ \/ \E tolerance \in ToleranceTexts, statics \in MainLayouts,
              nf \in 0..MaxFloating, m \in 0..MaxEdges :
              \E es \in [1..m -> EdgesOver(0..(Len(statics) + nf))] :
                  file = TextFile(ProblemLines(tolerance, statics, nf, es), TRUE)
       \/ file \in OtherFiles
    /\ pc = "config"
    /\ config = NoConfig
    /\ parsing = NotParsing
    /\ prob = NoProblem
    /\ outcome = "none"
    /\ a = Matrix_new(0)
    /\ xb = <<>>
    /\ yb = <<>>
    /\ k = 0
    /\ SolverIdle

Next ==
    \/ ConfigNew
    \/ ParseHeader \/ ParseStaticCell \/ ParseStaticCellsEnd \/ ParseEdge \/ ParseEnd
    \/ BuildEdge \/ StartSolve \/ Sweep \/ Round \/ Evaluate

Spec == Init /\ [][Next]_vars

(***************************************************************************)
(* SpecPlace: solve_placement and calculate_manhattan on every problem     *)
(* with at most one floating cell, valid edge indices and a tolerance of   *)
(* 0.5 or 0.001.                                                           *)
(***************************************************************************)
\* the f64 that "0.001" parses to
Milli == parse_f64(<<"0", ".", "0", "0", "1">>).value

InitPlace ==
    /\ IsProblemOver(prob, StaticLayouts, {Half, Milli}, 0..1, 0)
    /\ EnterSolvePlacement
    /\ NoFrontEnd
    /\ SolverIdle

NextPlace == BuildEdge \/ StartSolve \/ Sweep \/ Round \/ Evaluate

SpecPlace == InitPlace /\ [][NextPlace]_vars

(***************************************************************************)
(* SpecSolve: solve_placement on the problems with one static cell, up to  *)
(* MaxFloating floating cells, valid edge indices and a tolerance of 0.5   *)
(* or 1, so that the rows of a are coupled.                                *)
(***************************************************************************)
SinglePads == {<<StaticPoolB[n]>> : n \in {i \in 1..MaxStatic : i <= Len(StaticPoolB)}}

InitSolve ==
    /\ IsProblemOver(prob, SinglePads, CoarseTolerances, 1..MaxFloating, 0)
    /\ EnterSolvePlacement
    /\ NoFrontEnd
    /\ SolverIdle

NextSolve == BuildEdge \/ StartSolve \/ Sweep \/ Round

SpecSolve == InitSolve /\ [][NextSolve]_vars

(***************************************************************************)
(* SpecFine: solve_placement and calculate_manhattan under a tolerance of  *)
(* 1e-16, on systems of two coupled floating cells of which every one is   *)
(* tied to a static cell.                                                  *)
(***************************************************************************)
\* the f64 that "0.0000000000000001" parses to
Tiny ==
    parse_f64(<<"0", ".", "0", "0", "0", "0", "0", "0", "0", "0",
                "0", "0", "0", "0", "0", "0", "0", "1">>).value

FineLayouts == {SubSeq(StaticPoolB, 1, 2), SubSeq(StaticPoolA, 1, 3)}

\* the floating cells n and n + 1 tied to each other and to the static cells i and j
TiePair(n, i, j) == <<Edge(i, n), Edge(j, n + 1), Edge(n, n + 1)>>

\* the same with two edges between floating cell n and static cell i
DoubleTie(n, i, j) == <<Edge(i, n), Edge(i, n), Edge(j, n + 1), Edge(n, n + 1)>>

InitFine ==
    /\ \E statics \in FineLayouts :
           \E i \in 0..(Len(statics) - 1), j \in 0..(Len(statics) - 1) :
               \E es \in {TiePair(Len(statics), i, j), DoubleTie(Len(statics), i, j)} :
                   prob = Problem(Tiny, 2, statics, es)
    /\ EnterSolvePlacement
    /\ NoFrontEnd
    /\ SolverIdle

NextFine == BuildEdge \/ StartSolve \/ Sweep \/ Round \/ Evaluate

SpecFine == InitFine /\ [][NextFine]_vars

(***************************************************************************)
(* SpecConfig: Config::new on every argument list of up to MaxArgs         *)
(* arguments.                                                              *)
(***************************************************************************)
ArgumentStrings == {"placer", "chip.txt", "", "-v"}

ArgumentLists == UNION {[1..n -> ArgumentStrings] : n \in 0..MaxArgs}

InitConfig ==
    /\ args \in ArgumentLists
    /\ pc = "config"
    /\ config = NoConfig
    /\ file = NoFile
    /\ parsing = NotParsing
    /\ prob = NoProblem
    /\ outcome = "none"
    /\ a = Matrix_new(0)
    /\ xb = <<>>
    /\ yb = <<>>
    /\ k = 0
    /\ SolverIdle

NextConfig == ConfigNew

SpecConfig == InitConfig /\ [][NextConfig]_vars

(***************************************************************************)
(* SpecEval: calculate_manhattan on every edge list with valid indices     *)
(* over the static cells and the floating cells of the pools; the          *)
(* variables that it does not read hold their first values.                *)
(***************************************************************************)
FloatingPoolA == <<Coordinate(2, 0), Coordinate(-1, 4), Coordinate(3, 3), Coordinate(0, -2)>>

FloatingPoolB == <<Coordinate(0, 0), Coordinate(5, -5), Coordinate(-4, 1), Coordinate(1, 1)>>

InitEval ==
    /\ IsProblemOver(prob, StaticLayouts, {Half}, 0..MaxFloating, 0)
    /\ floating \in {SubSeq(pool, 1, prob.floating_cells) : pool \in {FloatingPoolA, FloatingPoolB}}
    /\ pc = "evaluate"
    /\ outcome = "none"
    /\ a = Matrix_new(0)
    /\ xb = <<>>
    /\ yb = <<>>
    /\ k = 0
    /\ b = <<>>
    /\ solve_diff = FromInt(0)
    /\ solution = <<>>
    /\ iter_diff = FromInt(0)
    /\ sweeps = 0
    /\ x_results = <<>>
    /\ y_results = <<>>
    /\ manhattan = 0
    /\ NoFrontEnd

NextEval == Evaluate

SpecEval == InitEval /\ [][NextEval]_vars

(***************************************************************************)
(* Helpers of the properties.                                              *)
(***************************************************************************)
RECURSIVE SumTo(_, _)
SumTo(f, n) == IF n = 0 THEN 0 ELSE f[n] + SumTo(f, n - 1)

\* the sum of the integer sequence f
SumSeq(f) == SumTo(f, Len(f))

Bit(c) == IF c THEN 1 ELSE 0

NumStatic == Len(prob.static_cells)

\* the edges of prob.edges[1..n] with an endpoint at floating cell i (0-based, local)
IncidentEdges(i, n) ==
    {e \in 1..n : prob.edges[e].node_a = NumStatic + i \/ prob.edges[e].node_b = NumStatic + i}

SelfLoops(i, n) ==
    {e \in 1..n : prob.edges[e].node_a = NumStatic + i /\ prob.edges[e].node_b = NumStatic + i}

OffDiagonalSum(m, i) ==
    SumSeq([j \in 1..m.size |-> IF j = i + 1 THEN 0 ELSE Abs(m.values[i + 1][j])])

BuildFinished == pc = "build" /\ k = Len(prob.edges)

\* no row of m has a zero on the diagonal
NonZeroDiagonal(m) == \A i \in 1..m.size : m.values[i][i] # 0

(***************************************************************************)
(* C1.  Matrix symmetry: after every prefix of the edge list (static-      *)
(* static, static-floating, floating-floating, duplicate and self-loop     *)
(* edges included), a[i][j] = a[j][i] for all i, j in [0, numFloating).    *)
(***************************************************************************)
C1_MatrixSymmetric ==
    pc = "build" =>
        /\ a.size = prob.floating_cells
        /\ \A i \in 1..a.size : \A j \in 1..a.size : a.values[i][j] = a.values[j][i]

\* two edges are in, a floating-floating one among them
C1_Witness ==
    /\ pc = "build"
    /\ k >= 2
    /\ \E i \in 1..a.size : \E j \in 1..a.size : i # j /\ a.values[i][j] < 0

(***************************************************************************)
(* C2 as claimed.  After the build, every floating cell i with at least    *)
(* one incident edge has a[i][i] = 2 * degree(i), degree counting every    *)
(* edge incident to i, and the sum over j # i of |a[i][j]| is at most      *)
(* a[i][i].                                                                *)
(***************************************************************************)
C2_AsClaimed ==
    BuildFinished =>
        \A i \in 0..(a.size - 1) :
            IncidentEdges(i, k) # {} =>
                /\ a.values[i + 1][i + 1] = 2 * Cardinality(IncidentEdges(i, k))
                /\ OffDiagonalSum(a, i) <= a.values[i + 1][i + 1]

(***************************************************************************)
(* C2 as amended.  After the build, every floating cell i with at least    *)
(* one incident edge has a[i][i] = 2 * (the number of its incident edges   *)
(* that are not self-loops), and the sum over j # i of |a[i][j]| is at     *)
(* most a[i][i].                                                           *)
(***************************************************************************)
C2_DiagonalDominance ==
    BuildFinished =>
        \A i \in 0..(a.size - 1) :
            IncidentEdges(i, k) # {} =>
                /\ a.values[i + 1][i + 1] =
                       2 * Cardinality(IncidentEdges(i, k) \ SelfLoops(i, k))
                /\ OffDiagonalSum(a, i) <= a.values[i + 1][i + 1]

\* a cell with a self-loop and another edge besides
C2_Witness ==
    /\ BuildFinished
    /\ \E i \in 0..(a.size - 1) :
           /\ SelfLoops(i, k) # {}
           /\ IncidentEdges(i, k) \ SelfLoops(i, k) # {}
           /\ a.values[i + 1][i + 1] = 2

(***************************************************************************)
(* C9.  Processing one edge changes (a, xb, yb) by exactly this much and   *)
(* nothing else: nothing for a static-static edge; for a static-floating   *)
(* edge in either order, with static s and floating f, +2 on a[f][f],      *)
(* +2*static[s].x on xb[f] and +2*static[s].y on yb[f]; for a floating-    *)
(* floating edge (fa, fb), +2 on a[fa][fa] and on a[fb][fb], -2 on         *)
(* a[fa][fb] and on a[fb][fa], xb and yb unchanged.                        *)
(***************************************************************************)
C9_EdgeUpdateRule ==
    [][(pc = "build" /\ k' = k + 1) =>
        LET edge == prob.edges[k + 1]
            a_static == edge.node_a < NumStatic
            b_static == edge.node_b < NumStatic
            mixed == a_static # b_static
            both_floating == ~a_static /\ ~b_static
            s == IF a_static THEN edge.node_a ELSE edge.node_b
            f == (IF a_static THEN edge.node_b ELSE edge.node_a) - NumStatic
            fa == edge.node_a - NumStatic
            fb == edge.node_b - NumStatic
        IN  /\ a'.size = a.size
            /\ Len(xb') = Len(xb)
            /\ Len(yb') = Len(yb)
            /\ \A i \in 0..(a.size - 1) : \A j \in 0..(a.size - 1) :
                   a'.values[i + 1][j + 1] - a.values[i + 1][j + 1] =
                       IF mixed THEN 2 * Bit(i = f /\ j = f)
                       ELSE IF both_floating
                       THEN 2 * Bit(i = fa /\ j = fa) + 2 * Bit(i = fb /\ j = fb)
                            - 2 * Bit(i = fa /\ j = fb) - 2 * Bit(i = fb /\ j = fa)
                       ELSE 0
            /\ \A i \in 0..(a.size - 1) :
                   /\ xb'[i + 1] - xb[i + 1] =
                          IF mixed /\ i = f THEN 2 * prob.static_cells[s + 1].x ELSE 0
                   /\ yb'[i + 1] - yb[i + 1] =
                          IF mixed /\ i = f THEN 2 * prob.static_cells[s + 1].y ELSE 0
    ]_vars

\* a static-floating edge with a non-zero y and a floating-floating edge are in
C9_Witness ==
    /\ pc = "build"
    /\ k = 2
    /\ \E i \in 1..Len(yb) : yb[i] # 0 /\ xb[i] # 0
    /\ \E i \in 1..a.size : \E j \in 1..a.size : i # j /\ a.values[i][j] = -2

WellPosed ==
    /\ FGt(prob.solve_diff, FromInt(0))
    /\ \A e \in 1..Len(prob.edges) :
           /\ InRange(prob.edges[e].node_a, NumStatic + prob.floating_cells)
           /\ InRange(prob.edges[e].node_b, NumStatic + prob.floating_cells)
    /\ NonZeroDiagonal(a)

\* the loop of Matrix::solve does not exit from sol: two sweeps that fail the
\* exit test lead back to sol
Stalled(m, rhs, sol, tol) ==
    LET once == new_solution_row(m, rhs, sol)
        twice == new_solution_row(m, rhs, once)
    IN  /\ twice = sol
        /\ ~FLt(sweep_iter_diff(sol, once), tol)
        /\ ~FLt(sweep_iter_diff(once, twice), tol)

C10_MonotoneAndExits ==
    [][(pc \in {"solve_x", "solve_y"} /\ WellPosed) =>
          /\ sweeps >= 1 => ~FGt(iter_diff', iter_diff)
          /\ pc' = pc => ~Stalled(a, b, solution', solve_diff)
    ]_vars

(***************************************************************************)
(* C4.  When a floating cell has no incident edge, the run does not divide *)
(* by the zero on the diagonal of its row: no value of the solution is a   *)
(* NaN, and the run ends with an error, not with Ok.  (Stated for the      *)
(* problems with valid edge indices and a tolerance above 0.)              *)
(***************************************************************************)
IndicesValid ==
    \A e \in 1..Len(prob.edges) :
        /\ InRange(prob.edges[e].node_a, NumStatic + prob.floating_cells)
        /\ InRange(prob.edges[e].node_b, NumStatic + prob.floating_cells)

IsolatedCell ==
    \E i \in 0..(prob.floating_cells - 1) : IncidentEdges(i, Len(prob.edges)) = {}

C4_ZeroDiagonalDetected ==
    (IsolatedCell /\ IndicesValid /\ FGt(prob.solve_diff, FromInt(0))) =>
        /\ \A i \in 1..Len(solution) : ~IsNaN(solution[i])
        /\ outcome # "Ok"
        /\ pc = "done" => outcome = "Err"

(***************************************************************************)
(* C5.  A problem whose edge list has a node index >= numStatic +          *)
(* numFloating, or whose tolerance is <= 0, is rejected by parse, so       *)
(* solve_placement and Matrix::solve are never entered with it: whenever   *)
(* the run is in solve_placement or past it, the indices of the problem    *)
(* are in range and its tolerance is above 0.                              *)
(***************************************************************************)
C5_MalformedRejected ==
    pc \in {"build", "solve_x", "round_x", "solve_y", "round_y", "evaluate"} =>
        /\ IndicesValid
        /\ FGt(prob.solve_diff, FromInt(0))

(***************************************************************************)
(* C6.  Scenario A: static cells (0,0) and (4,0), one floating cell, one   *)
(* edge between the floating cell and each static cell (endpoints in       *)
(* either order), tolerance 0.001.  Both solves exit (the x solve and the  *)
(* y solve by their second sweep), solve_placement returns the one         *)
(* coordinate (2, 0) and calculate_manhattan returns 4.                    *)
(***************************************************************************)
ScenarioA ==
    /\ prob.static_cells = <<Coordinate(0, 0), Coordinate(4, 0)>>
    /\ prob.floating_cells = 1
    /\ prob.solve_diff = Milli
    /\ Len(prob.edges) = 2
    /\ {{prob.edges[e].node_a, prob.edges[e].node_b} : e \in 1..2} = {{0, 2}, {1, 2}}

C6_ScenarioA ==
    ScenarioA =>
        /\ outcome \in {"none", "Ok"}
        /\ pc \in {"solve_x", "solve_y"} => sweeps < 2
        /\ pc \in {"solve_y", "round_y", "evaluate", "done"} => x_results = <<2>>
        /\ pc \in {"evaluate", "done"} => floating = <<Coordinate(2, 0)>>
        /\ pc = "done" => (outcome = "Ok" /\ manhattan = 4)

\* the run of scenario A is over
C6_Witness == ScenarioA /\ pc = "done" /\ manhattan = 4

(***************************************************************************)
(* C7.  calculate_manhattan returns the sum over the edges, each counted   *)
(* once per occurrence, of |x_a - x_b| + |y_a - y_b|, where an endpoint    *)
(* i < numStatic is static_cells[i] and an endpoint i >= numStatic is      *)
(* floating_cells[i - numStatic]; the result is not negative.              *)
(***************************************************************************)
Resolve(i) ==
    IF i < NumStatic THEN prob.static_cells[i + 1] ELSE floating[i - NumStatic + 1]

EdgeLength(e) ==
    LET ca == Resolve(prob.edges[e].node_a)
        cb == Resolve(prob.edges[e].node_b)
        dx == ca.x - cb.x
        dy == ca.y - cb.y
    IN  (IF dx < 0 THEN -dx ELSE dx) + (IF dy < 0 THEN -dy ELSE dy)

C7_Wirelength ==
    (pc = "done" /\ outcome = "Ok") =>
        /\ manhattan = SumSeq([e \in 1..Len(prob.edges) |-> EdgeLength(e)])
        /\ manhattan \in Nat

\* a wirelength with an edge between a static and a floating cell whose x grows
\* from a to b, and a self-loop
C7_Witness ==
    /\ pc = "done"
    /\ manhattan > 0
    /\ \E e \in 1..Len(prob.edges) :
           /\ prob.edges[e].node_a < NumStatic
           /\ prob.edges[e].node_b >= NumStatic
           /\ Resolve(prob.edges[e].node_a).x < Resolve(prob.edges[e].node_b).x
    /\ \E e \in 1..Len(prob.edges) : prob.edges[e].node_a = prob.edges[e].node_b

(***************************************************************************)
(* C8.  Config::new returns Ok exactly when the argument list has length   *)
(* 2, and then filename() is the second argument; for every other length   *)
(* it returns the PlacerError that renders as "Placer Error: Invalid       *)
(* number of arguments, expected 2." and there is no Config.               *)
(***************************************************************************)
C8_ConfigContract ==
    pc # "config" =>
        /\ config.ok <=> Len(args) = 2
        /\ config.ok => (config.filename = args[2] /\ config.why = "" /\ outcome # "Err")
        /\ ~config.ok =>
               /\ PlacerError_fmt(config.why) =
                      "Placer Error: Invalid number of arguments, expected 2."
               /\ config.filename = ""
               /\ pc = "done"
               /\ outcome = "Err"

\* Config::new has returned Ok on two arguments that differ
C8_Witness ==
    /\ pc = "parse"
    /\ config.ok
    /\ Len(args) = 2
    /\ args[1] # args[2]
====
